---- MODULE Spec2Model ----
(***************************************************************************)
(* Model of kyoodong/rust-common-library: BigInteger (a Uint256 wrapper),  *)
(* BigDecimal (a Decimal256 wrapper, atomics / 10^18), BigDecimal's        *)
(* string parser and SerializableMap (a BTreeMap persisted as a sequence   *)
(* of pairs).                                                              *)
(*                                                                         *)
(* 256-bit values do not fit TLC's integers, so a natural number is a      *)
(* sequence of limbs, least significant first, without leading zero limbs  *)
(* (zero is the empty sequence).  All widths are the real ones.            *)
(***************************************************************************)
EXTENDS Integers, Sequences, FiniteSets, TLC

VARIABLES
    overflow_checks, \* build profile: primitive integer overflow panics (TRUE) or wraps
    pow_checked,     \* cosmwasm_std version: Uint128::pow panics on overflow in every profile
    call,            \* the last numeric call: operation, arguments, outcome
    prev,            \* the call whose outcome the last call took as its receiver
    input,           \* the string handed to BigDecimal::from_str
    parsed,          \* what from_str did with it
    map,             \* a SerializableMap built by set / delete
    restored,        \* a SerializableMap built by deserialization
    last,            \* the last SerializableMap operation and what it returned
    shadow           \* per key: the value of the latest set not followed by a delete

vars == <<overflow_checks, pow_checked, call, prev, input, parsed, map, restored, last, shadow>>

(***************************************************************************)
(* Natural numbers of any size.                                            *)
(***************************************************************************)
Base == 10 ^ 4

\* without the leading zero limbs
NatNorm(s) ==
    LET nz == {i \in 1..Len(s) : s[i] # 0}
    IN  IF nz = {} THEN <<>>
        ELSE SubSeq(s, 1, CHOOSE i \in nz : \A j \in nz : j <= i)

\* the limbs of a machine integer
FromNat(n) == NatNorm(<<n % Base, (n \div Base) % Base, n \div (Base * Base)>>)

Limb(a, i) == IF i <= Len(a) THEN a[i] ELSE 0

\* -1, 0, 1 as a < b, a = b, a > b: the most significant differing limb decides
NatCmp(a, b) ==
    IF Len(a) < Len(b) THEN -1
    ELSE IF Len(a) > Len(b) THEN 1
    ELSE LET d == {i \in 1..Len(a) : a[i] # b[i]}
         IN  IF d = {} THEN 0
             ELSE LET t == CHOOSE i \in d : \A j \in d : j <= i
                  IN  IF a[t] < b[t] THEN -1 ELSE 1

NatLe(a, b) == NatCmp(a, b) <= 0
NatLt(a, b) == NatCmp(a, b) < 0

\* the number whose limb i weighs t[i], each t[i] at most 2 * Base - 2 and
\* the last one zero: limb i takes a carry of one when the limbs below it
\* overflow into it, directly or through a run of full limbs
NatCarry(t) ==
    LET n == Len(t)
        carry(i) ==
            /\ i > 1
            /\ \/ t[i - 1] >= Base
               \/ /\ t[i - 1] = Base - 1
                  /\ \E j \in 1..(i - 2) :
                         t[j] >= Base /\ \A l \in (j + 1)..(i - 2) : t[l] = Base - 1
    IN  NatNorm(SubSeq([i \in 1..n |-> (t[i] + (IF carry(i) THEN 1 ELSE 0)) % Base], 1, n))

NatAdd(a, b) ==
    LET n == (IF Len(a) > Len(b) THEN Len(a) ELSE Len(b)) + 1
    IN  NatCarry(SubSeq([i \in 1..n |-> Limb(a, i) + Limb(b, i)], 1, n))

\* a - b for a >= b: limb i lends one when the limbs below it fall short,
\* directly or through a run of equal limbs
NatSub(a, b) ==
    LET n == Len(a)
        d == SubSeq([i \in 1..n |-> a[i] - Limb(b, i)], 1, n)
        borrow(i) ==
            /\ i > 1
            /\ \/ d[i - 1] < 0
               \/ /\ d[i - 1] = 0
                  /\ \E j \in 1..(i - 2) :
                         d[j] < 0 /\ \A l \in (j + 1)..(i - 2) : d[l] = 0
    IN  NatNorm(SubSeq([i \in 1..n |-> (d[i] - (IF borrow(i) THEN 1 ELSE 0) + Base) % Base], 1, n))

NatShift(a) == IF a = <<>> THEN <<>> ELSE <<0>> \o a

\* the number whose limb i weighs c[i], each c[i] below Base * Base: the low
\* limb of c[i] and the high limb of c[i - 1] meet at limb i
NatWide(c) ==
    LET n == Len(c) + 2
        lo(i) == IF i <= Len(c) THEN c[i] % Base ELSE 0
        hi(i) == IF 1 <= i /\ i <= Len(c) THEN c[i] \div Base ELSE 0
    IN  NatCarry(SubSeq([i \in 1..n |-> lo(i) + hi(i - 1)], 1, n))

\* a * k for a limb k
NatMulSmall(a, k) ==
    IF k = 0 \/ a = <<>> THEN <<>>
    ELSE NatWide(SubSeq([i \in 1..Len(a) |-> a[i] * k], 1, Len(a)))

\* over the limb products a[i] * b[k + 1 - i] of column k, for i in lo..hi:
\* the sum of their low limbs (part = 0) or of their high limbs (part = 1)
RECURSIVE NatColumn(_, _, _, _, _, _)
NatColumn(a, b, k, lo, hi, part) ==
    IF lo > hi THEN 0
    ELSE IF lo = hi
    THEN LET p == a[lo] * b[k + 1 - lo]
         IN  IF part = 0 THEN p % Base ELSE p \div Base
    ELSE LET mid == (lo + hi) \div 2
         IN  NatColumn(a, b, k, lo, mid, part) + NatColumn(a, b, k, mid + 1, hi, part)

NatMul(a, b) ==
    IF a = <<>> \/ b = <<>> THEN <<>>
    ELSE LET n == Len(a) + Len(b) - 1
             from(k) == IF k > Len(b) THEN k + 1 - Len(b) ELSE 1
             to(k) == IF k < Len(a) THEN k ELSE Len(a)
             columns(part) ==
                 SubSeq([k \in 1..n |-> NatColumn(a, b, k, from(k), to(k), part)], 1, n)
         IN  NatAdd(NatWide(columns(0)), NatShift(NatWide(columns(1))))

RECURSIVE NatPow(_, _)
NatPow(a, e) ==
    IF e = 0 THEN <<1>>
    ELSE IF e % 2 = 1 THEN NatMul(a, NatPow(a, e - 1))
    ELSE LET h == NatPow(a, e \div 2) IN NatMul(h, h)

\* 10^n: a limb holds four decimal digits
NatPow10(n) ==
    LET z == n \div 4
    IN  SubSeq([i \in 1..(z + 1) |-> IF i <= z THEN 0 ELSE 10 ^ (n % 4)], 1, z + 1)

\* the largest q = lo + step * d, d in 0..9, with q <= hi and b * q <= r
\* (b * lo <= r is given)
QuotDigit(r, b, lo, hi, step) ==
    lo + step * Cardinality({d \in 1..9 :
                                 /\ lo + step * d <= hi
                                 /\ NatLe(NatMulSmall(b, lo + step * d), r)})

\* floor(r / b) for b <= r < b * Base: the leading limbs of r over the
\* leading limb of b are an upper bound, exact when b has no other limb
\* than zeros; below it the quotient is found a decimal digit at a time
QuotLimb(r, b) ==
    LET m == Len(b)
        est == (Limb(r, m + 1) * Base + r[m]) \div b[m]
        hi == IF est < Base THEN est ELSE Base - 1
        q3 == QuotDigit(r, b, 0, hi - 1, 1000)
        q2 == QuotDigit(r, b, q3, hi - 1, 100)
        q1 == QuotDigit(r, b, q2, hi - 1, 10)
    IN  IF NatLe(NatMulSmall(b, hi), r) THEN hi
        ELSE QuotDigit(r, b, q1, hi - 1, 1)

\* long division over the limbs a[lo..hi] with the remainder r brought down
\* from the limbs above them: <<quotient limbs, most significant first,
\* remainder>>.  The upper half is divided first and hands its remainder to
\* the lower half.
RECURSIVE NatDivFrom(_, _, _, _, _)
NatDivFrom(a, b, lo, hi, r) ==
    IF lo = hi
    THEN LET r1 == NatNorm(<<a[lo]>> \o r)
         IN  IF NatLt(r1, b) THEN <<(<<0>>), r1>>
             ELSE LET q == QuotLimb(r1, b)
                  IN  <<(<<q>>), NatSub(r1, NatMulSmall(b, q))>>
    ELSE LET mid == (lo + hi) \div 2
             upper == NatDivFrom(a, b, mid + 1, hi, r)
             lower == NatDivFrom(a, b, lo, mid, upper[2])
         IN  <<upper[1] \o lower[1], lower[2]>>

\* <<floor(a / b), a mod b>>, for b > 0
NatDivMod(a, b) ==
    IF a = <<>> THEN <<(<<>>), (<<>>)>>
    ELSE LET n == Len(a)
             x == NatDivFrom(a, b, 1, n, <<>>)
         IN  <<NatNorm(SubSeq([i \in 1..n |-> x[1][n + 1 - i]], 1, n)), x[2]>>

NatDiv(a, b) == NatDivMod(a, b)[1]
NatMod(a, b) == NatDivMod(a, b)[2]

(***************************************************************************)
(* cosmwasm_std's integers as the two types use them.  An operation ends   *)
(* Ok with a value or panics; nothing is returned beside a panic.          *)
(***************************************************************************)
Ok(v)     == <<"Ok", v, "">>
Panic(m)  == <<"Panic", <<>>, m>>
IsOk(r)   == r[1] = "Ok"
IsPanic(r) == r[1] = "Panic"
Val(r)    == r[2]
Msg(r)    == r[3]

U256_BITS == 256
U128_BITS == 128
DECIMAL_PLACES == 18

Two == FromNat(2)
U256_MAX == NatSub(NatPow(Two, U256_BITS), <<1>>)
U128_MAX == NatSub(NatPow(Two, U128_BITS), <<1>>)
DECIMAL_FRACTIONAL == NatPow10(DECIMAL_PLACES)

\* a wider result brought back to 256 bits: panics when it does not fit
Uint256_try_from(x) == IF NatLe(x, U256_MAX) THEN Ok(x) ELSE Panic("Overflow")

\* Uint256 + Uint256: panics instead of wrapping
Uint256_add(a, b) == Uint256_try_from(NatAdd(a, b))

\* Uint256 - Uint256: panics when rhs > self
Uint256_sub(a, b) ==
    IF NatLe(b, a) THEN Ok(NatSub(a, b)) ELSE Panic("Underflow")

Uint256_saturating_sub(a, b) ==
    IF NatLe(b, a) THEN NatSub(a, b) ELSE <<>>

\* a power of ten past 2^128 - 1, in 128 bits: a panic, or the low 128 bits
\* where nothing checks
u128_overflow(x, checked) ==
    IF checked THEN Panic("Overflow") ELSE Ok(NatMod(x, NatAdd(U128_MAX, <<1>>)))

u128_pow(x, checked) == IF NatLe(x, U128_MAX) THEN Ok(x) ELSE u128_overflow(x, checked)

\* 10u128.pow(n): a result past 2^128 - 1 panics where the build checks
\* overflow and wraps where it does not
Pow10_u128(n) == u128_pow(NatPow10(n), overflow_checks)

\* Uint128::from(10u64).pow(n): as the primitive, or a panic in every build
Uint128_pow10(n) == u128_pow(NatPow10(n), overflow_checks \/ pow_checked)

\* Decimal256::from_ratio: numerator * 10^18 / denominator, the product at
\* full width, the quotient back in 256 bits
Decimal256_from_ratio(numerator, denominator) ==
    IF denominator = <<>> THEN Panic("DivideByZero")
    ELSE Uint256_try_from(NatDiv(NatMul(numerator, DECIMAL_FRACTIONAL), denominator))

\* Decimal256 * Decimal256 on atomics: full-width product / 10^18
Decimal256_mul(a, b) == Uint256_try_from(NatDiv(NatMul(a, b), DECIMAL_FRACTIONAL))

\* Decimal256 / Decimal256 on atomics: from_ratio of the two numerators
Decimal256_div(a, b) == Decimal256_from_ratio(a, b)

to_uint_floor(a) == NatDiv(a, DECIMAL_FRACTIONAL)

\* The same operations inside a larger expression, on the outcomes of their
\* operands: an operand that panicked ends the expression.
from_ratio_of(n, d) ==
    IF IsPanic(n) THEN n
    ELSE IF IsPanic(d) THEN d
    ELSE Decimal256_from_ratio(Val(n), Val(d))

mul_of(a, b) ==
    IF IsPanic(a) THEN a
    ELSE IF IsPanic(b) THEN b
    ELSE Decimal256_mul(Val(a), Val(b))

div_of(a, b) ==
    IF IsPanic(a) THEN a
    ELSE IF IsPanic(b) THEN b
    ELSE Decimal256_div(Val(a), Val(b))

to_uint_floor_of(a) == IF IsPanic(a) THEN a ELSE Ok(to_uint_floor(Val(a)))

(***************************************************************************)
(* BigInteger.  A value is its Uint256 magnitude.                          *)
(***************************************************************************)
BigInteger_zero == <<>>

\* a wrapping addition in place of the checked one
BigInteger_add_wrapping(a, b) ==
    Ok(NatMod(NatAdd(a, b), NatAdd(U256_MAX, <<1>>)))

BigInteger_add(a, b) == Uint256_add(a, b)

BigInteger_sub(a, b) == Uint256_sub(a, b)

\* the checked subtraction in place of the saturating one
BigInteger_saturating_sub_checked(a, b) == Uint256_sub(a, b)

BigInteger_saturating_sub(a, b) == Ok(Uint256_saturating_sub(a, b))

\* iter.fold(zero(), Add::add): the first panic ends the fold
RECURSIVE BigInteger_fold(_, _, _)
BigInteger_fold(xs, i, acc) ==
    IF i > Len(xs) THEN Ok(acc)
    ELSE LET r == BigInteger_add(acc, xs[i])
         IN  IF IsPanic(r) THEN r ELSE BigInteger_fold(xs, i + 1, Val(r))

BigInteger_sum(xs) == BigInteger_fold(xs, 1, BigInteger_zero)

\* iter.fold(zero(), |a, b| a + *b)
RECURSIVE BigInteger_fold_ref(_, _, _)
BigInteger_fold_ref(xs, i, acc) ==
    IF i > Len(xs) THEN Ok(acc)
    ELSE LET r == BigInteger_add(acc, xs[i])
         IN  IF IsPanic(r) THEN r ELSE BigInteger_fold_ref(xs, i + 1, Val(r))

BigInteger_sum_ref(xs) == BigInteger_fold_ref(xs, 1, BigInteger_zero)

(***************************************************************************)
(* BigDecimal.  A value is its atomics, the Decimal256 numerator over      *)
(* 10^18.                                                                  *)
(***************************************************************************)
BigDecimal_zero == <<>>
BigDecimal_one == DECIMAL_FRACTIONAL

BigDecimal_from(bigint, decimals) ==
    from_ratio_of(Ok(bigint), Uint128_pow10(decimals))

BigInteger_scale_down(self, decimals) == BigDecimal_from(self, decimals)

BigDecimal_from_ratio(numerator, denominator) ==
    Decimal256_from_ratio(numerator, denominator)

BigDecimal_add(a, b) == Uint256_add(a, b)

BigDecimal_sub(a, b) == Uint256_sub(a, b)

BigDecimal_mul(a, b) == Decimal256_mul(a, b)

BigDecimal_div(a, b) == Decimal256_div(a, b)

BigDecimal_saturating_sub(a, b) == Ok(Uint256_saturating_sub(a, b))

\* Decimal256 * Decimal256 with the product kept in 256 bits
mul_narrow_of(a, b) ==
    IF IsPanic(a) THEN a
    ELSE IF IsPanic(b) THEN b
    ELSE IF NatLe(NatMul(Val(a), Val(b)), U256_MAX) THEN Decimal256_mul(Val(a), Val(b))
    ELSE Panic("Overflow")

\* scale_up with the product self * 10^decimals kept in 256 bits
BigDecimal_scale_up_narrow(self, decimals) ==
    to_uint_floor_of(mul_narrow_of(Ok(self), from_ratio_of(Pow10_u128(decimals), Ok(<<1>>))))

BigDecimal_scale_up(self, decimals) ==
    to_uint_floor_of(mul_of(Ok(self), from_ratio_of(Pow10_u128(decimals), Ok(<<1>>))))

BigDecimal_move_point_right(self, decimals) ==
    mul_of(Ok(self), from_ratio_of(Pow10_u128(decimals), Ok(<<1>>)))

BigDecimal_move_point_left(self, decimals) ==
    div_of(Ok(self), from_ratio_of(Pow10_u128(decimals), Ok(<<1>>)))

RECURSIVE BigDecimal_fold(_, _, _)
BigDecimal_fold(xs, i, acc) ==
    IF i > Len(xs) THEN Ok(acc)
    ELSE LET r == BigDecimal_add(acc, xs[i])
         IN  IF IsPanic(r) THEN r ELSE BigDecimal_fold(xs, i + 1, Val(r))

BigDecimal_sum(xs) == BigDecimal_fold(xs, 1, BigDecimal_zero)

RECURSIVE BigDecimal_fold_ref(_, _, _)
BigDecimal_fold_ref(xs, i, acc) ==
    IF i > Len(xs) THEN Ok(acc)
    ELSE LET r == BigDecimal_add(acc, xs[i])
         IN  IF IsPanic(r) THEN r ELSE BigDecimal_fold_ref(xs, i + 1, Val(r))

BigDecimal_sum_ref(xs) == BigDecimal_fold_ref(xs, 1, BigDecimal_zero)

(***************************************************************************)
(* The numeric operations as a state machine: each action is one call on   *)
(* arguments drawn from the samples, or on the outcome of the call before. *)
(***************************************************************************)
MaxSumLen == 3

MaxScaled == NatDiv(U256_MAX, DECIMAL_FRACTIONAL)  \* the largest integer a BigDecimal holds

IntSamples ==
    { <<>>, <<1>>, FromNat(2), FromNat(3), NatPow10(6), DECIMAL_FRACTIONAL,
      NatPow10(20), MaxScaled, NatAdd(MaxScaled, <<1>>), NatPow10(39),
      NatAdd(U128_MAX, <<1>>), NatSub(U256_MAX, <<1>>), U256_MAX }

SumSamples == { <<>>, <<1>>, FromNat(2), FromNat(3), NatSub(U256_MAX, <<1>>), U256_MAX }

ExpSamples == {0, 1, 6, 18, 19, 38, 39, 77, 128}

RECURSIVE SeqsUpTo(_, _)
SeqsUpTo(S, n) ==
    IF n = 0 THEN {<<>>}
    ELSE LET shorter == SeqsUpTo(S, n - 1)
         IN  shorter \cup {Append(q, x) : q \in {r \in shorter : Len(r) = n - 1}, x \in S}

\* a call: <<operation, self or lhs, rhs, decimals, items summed, outcome>>
Called(name, lhs, rhs, exp, items, outcome) == <<name, lhs, rhs, exp, items, outcome>>
OpOf(c)   == c[1]
ArgA(c)   == c[2]
ArgB(c)   == c[3]
ArgN(c)   == c[4]
ArgXs(c)  == c[5]
ResOf(c)  == c[6]

NoCall == Called("none", <<>>, <<>>, 0, <<>>, Ok(<<>>))

\* what from_str did: <<outcome, whether the inner multiplication was reached,
\* fractional, fractional_factor>>
NoParse == <<<<"none", <<>>, "">>, FALSE, <<>>, <<>>>>

\* a map operation: <<operation, key, value, the bool returned, the value
\* returned (0 for None), the map before, the pairs written or read, the
\* length announced>>
MapOp(name, k, v, flag, got, before, pairs, hint) ==
    <<name, k, v, flag, got, before, pairs, hint>>
LastOp(l)     == l[1]
LastKey(l)    == l[2]
LastValue(l)  == l[3]
LastFlag(l)   == l[4]
LastGot(l)    == l[5]
LastBefore(l) == l[6]
LastPairs(l)  == l[7]
LastHint(l)   == l[8]

NoMapOp == MapOp("none", 0, 0, FALSE, 0, <<>>, <<>>, 0)

NumInit ==
    /\ overflow_checks \in BOOLEAN
    /\ pow_checked \in BOOLEAN
    /\ call = NoCall
    /\ prev = NoCall
    /\ input = <<>>
    /\ parsed = NoParse
    /\ map = <<>>
    /\ restored = <<>>
    /\ last = NoMapOp
    /\ shadow = <<>>

NumFrame == UNCHANGED <<overflow_checks, pow_checked, input, parsed, map, restored, last, shadow>>

\* the first call of a run
Idle == OpOf(call) = "none"

IntSum ==
    /\ Idle
    /\ \E xs \in SeqsUpTo(SumSamples, MaxSumLen) :
        call' = Called("BigInteger::sum", <<>>, <<>>, 0, xs, BigInteger_sum(xs))
    /\ prev' = NoCall /\ NumFrame

IntSumRef ==
    /\ Idle
    /\ \E xs \in SeqsUpTo(SumSamples, MaxSumLen) :
        call' = Called("BigInteger::sum_ref", <<>>, <<>>, 0, xs, BigInteger_sum_ref(xs))
    /\ prev' = NoCall /\ NumFrame

DecSum ==
    /\ Idle
    /\ \E xs \in SeqsUpTo(SumSamples, MaxSumLen) :
        call' = Called("BigDecimal::sum", <<>>, <<>>, 0, xs, BigDecimal_sum(xs))
    /\ prev' = NoCall /\ NumFrame

DecSumRef ==
    /\ Idle
    /\ \E xs \in SeqsUpTo(SumSamples, MaxSumLen) :
        call' = Called("BigDecimal::sum_ref", <<>>, <<>>, 0, xs, BigDecimal_sum_ref(xs))
    /\ prev' = NoCall /\ NumFrame

IntSub ==
    /\ Idle
    /\ \E a \in IntSamples, b \in IntSamples :
        call' = Called("BigInteger::sub", a, b, 0, <<>>, BigInteger_sub(a, b))
    /\ prev' = NoCall /\ NumFrame

IntSaturatingSub ==
    /\ Idle
    /\ \E a \in IntSamples, b \in IntSamples :
        call' = Called("BigInteger::saturating_sub", a, b, 0, <<>>,
                       BigInteger_saturating_sub(a, b))
    /\ prev' = NoCall /\ NumFrame

DecSub ==
    /\ Idle
    /\ \E a \in IntSamples, b \in IntSamples :
        call' = Called("BigDecimal::sub", a, b, 0, <<>>, BigDecimal_sub(a, b))
    /\ prev' = NoCall /\ NumFrame

DecSaturatingSub ==
    /\ Idle
    /\ \E a \in IntSamples, b \in IntSamples :
        call' = Called("BigDecimal::saturating_sub", a, b, 0, <<>>,
                       BigDecimal_saturating_sub(a, b))
    /\ prev' = NoCall /\ NumFrame

From ==
    /\ Idle
    /\ \E v \in IntSamples, d \in ExpSamples :
        call' = Called("BigDecimal::from", v, <<>>, d, <<>>, BigDecimal_from(v, d))
    /\ prev' = NoCall /\ NumFrame

ScaleDown ==
    /\ Idle
    /\ \E v \in IntSamples, d \in ExpSamples :
        call' = Called("BigInteger::scale_down", v, <<>>, d, <<>>,
                       BigInteger_scale_down(v, d))
    /\ prev' = NoCall /\ NumFrame

\* scale_up on the BigDecimal the call before returned
ScaleUp ==
    /\ OpOf(call) \in {"BigDecimal::from", "BigInteger::scale_down"}
    /\ IsOk(ResOf(call))
    /\ \E d \in ExpSamples :
        call' = Called("BigDecimal::scale_up", Val(ResOf(call)), <<>>, d, <<>>,
                       BigDecimal_scale_up(Val(ResOf(call)), d))
    /\ prev' = call /\ NumFrame

MovePointRight ==
    /\ Idle
    /\ \E v \in IntSamples, d \in ExpSamples :
        call' = Called("BigDecimal::move_point_right", v, <<>>, d, <<>>,
                       BigDecimal_move_point_right(v, d))
    /\ prev' = NoCall /\ NumFrame

\* move_point_left on the BigDecimal move_point_right returned
MovePointLeft ==
    /\ OpOf(call) = "BigDecimal::move_point_right"
    /\ IsOk(ResOf(call))
    /\ \E d \in ExpSamples :
        call' = Called("BigDecimal::move_point_left", Val(ResOf(call)), <<>>, d, <<>>,
                       BigDecimal_move_point_left(Val(ResOf(call)), d))
    /\ prev' = call /\ NumFrame

NumNext ==
    \/ IntSum \/ IntSumRef \/ DecSum \/ DecSumRef
    \/ IntSub \/ IntSaturatingSub \/ DecSub \/ DecSaturatingSub
    \/ From \/ ScaleDown \/ ScaleUp
    \/ MovePointRight \/ MovePointLeft

SpecNum == NumInit /\ [][NumNext]_vars

(***************************************************************************)
(* Strings are sequences of characters.  BigDecimal::from_str and the      *)
(* Uint256 parser and formatter it rests on.                               *)
(***************************************************************************)
Err(m)   == <<"Err", <<>>, m>>
IsErr(r) == r[1] = "Err"

DigitChars == <<"0", "1", "2", "3", "4", "5", "6", "7", "8", "9">>

IsDigit(c) == \E d \in 1..Len(DigitChars) : DigitChars[d] = c

DigitValue(c) == (CHOOSE d \in 1..Len(DigitChars) : DigitChars[d] = c) - 1

\* the decimal digit of weight 10^(p - 1) of x; a limb holds four of them
NatDigit(x, p) == (Limb(x, ((p - 1) \div 4) + 1) \div (10 ^ ((p - 1) % 4))) % 10

\* Uint256 Display: the decimal digits from the leading one, "0" for zero
NatDigits(x) ==
    LET n == 4 * Len(x)
        lead == CHOOSE p \in 1..n :
                    NatDigit(x, p) # 0 /\ \A q \in (p + 1)..n : NatDigit(x, q) = 0
    IN  SubSeq([i \in 1..lead |-> DigitChars[NatDigit(x, lead + 1 - i) + 1]], 1, lead)

BigInteger_to_string(x) == IF x = <<>> THEN <<"0">> ELSE NatDigits(x)

\* the number the decimal digits s write: four digits a limb, from the right
DecimalValue(s) ==
    LET n == Len(s)
        m == (n + 3) \div 4
        d(p) == IF p <= n THEN DigitValue(s[n + 1 - p]) ELSE 0
    IN  IF n = 0 THEN <<>>
        ELSE NatNorm(SubSeq([k \in 1..m |-> d(4 * k - 3) + 10 * d(4 * k - 2)
                                            + 100 * d(4 * k - 1) + 1000 * d(4 * k)], 1, m))

\* Uint256::from_str: refuses the empty string, a character that is no
\* digit, and a value past MAX
Uint256_from_str(s) ==
    IF s = <<>> THEN Err("empty string")
    ELSE IF \E i \in 1..Len(s) : ~IsDigit(s[i]) THEN Err("invalid digit")
    ELSE LET x == DecimalValue(s)
         IN  IF NatLe(x, U256_MAX) THEN Ok(x) ELSE Err("number too large")

\* the position of the k-th '.' of s
DotAt(s, k) ==
    CHOOSE i \in 1..Len(s) :
        /\ s[i] = "."
        /\ Cardinality({j \in 1..i : s[j] = "."}) = k

\* s.split('.'): the segments between the dots, one more than there are dots
split_dots(s) ==
    LET dots == Cardinality({i \in 1..Len(s) : s[i] = "."})
    IN  [k \in 1..(dots + 1) |->
            SubSeq(s,
                   IF k = 1 THEN 1 ELSE DotAt(s, k - 1) + 1,
                   IF k = dots + 1 THEN Len(s) ELSE DotAt(s, k) - 1)]

Uint256_checked_mul(a, b) ==
    LET x == NatMul(a, b)
    IN  IF NatLe(x, U256_MAX) THEN Ok(x) ELSE Err("Overflow")

Uint256_checked_add(a, b) ==
    LET x == NatAdd(a, b)
    IN  IF NatLe(x, U256_MAX) THEN Ok(x) ELSE Err("Overflow")

\* a difference that is never refused
saturating_sub_u32(a, b) == IF a >= b THEN <<a - b>> ELSE <<0>>

\* the distance between the two in place of the checked difference
abs_diff_u32(a, b) == IF a >= b THEN <<a - b>> ELSE <<b - a>>

\* u32::checked_sub: <<a - b>>, or <<>> for None
checked_sub_u32(a, b) == IF a >= b THEN <<a - b>> ELSE <<>>

\* a fourth segment in place of a third
has_fourth_part(parts) == Len(parts) > 3

\* parts_iter.next().is_some() after the fractional part was taken
has_third_part(parts) == Len(parts) > 2

\* the fractional branch of from_str, from the atomics of the whole part:
\* <<outcome, whether the inner multiplication was reached, fractional, fractional_factor>>
from_str_fractional(atomics, fractional_part) ==
    LET fractional == Uint256_from_str(fractional_part)
        exp == checked_sub_u32(DECIMAL_PLACES, Len(fractional_part))
        fractional_factor == NatPow10(exp[1])
        inner == Uint256_checked_mul(Val(fractional), fractional_factor)
        sum == Uint256_checked_add(atomics, Val(inner))
    IN  IF IsErr(fractional) THEN <<Err("Error parsing fractional"), FALSE, <<>>, <<>>>>
        ELSE IF exp = <<>>
        THEN <<Err("Cannot parse more than 18 fractional digits"), FALSE, <<>>, <<>>>>
        ELSE IF IsErr(inner)
        THEN <<Panic("unwrap on Overflow"), TRUE, Val(fractional), fractional_factor>>
        ELSE IF IsErr(sum)
        THEN <<Err("Value too big"), TRUE, Val(fractional), fractional_factor>>
        ELSE <<sum, TRUE, Val(fractional), fractional_factor>>

\* BigDecimal::from_str
BigDecimal_from_str(s) ==
    LET parts == split_dots(s)
        whole == Uint256_from_str(parts[1])
        atomics == Uint256_checked_mul(Val(whole), DECIMAL_FRACTIONAL)
        frac == IF Len(parts) > 1
                THEN from_str_fractional(Val(atomics), parts[2])
                ELSE <<atomics, FALSE, <<>>, <<>>>>
    IN  IF IsErr(whole) THEN <<Err("Error parsing whole"), FALSE, <<>>, <<>>>>
        ELSE IF IsErr(atomics) THEN <<Err("Value too big"), FALSE, <<>>, <<>>>>
        ELSE IF ~IsOk(frac[1]) THEN frac
        ELSE IF has_third_part(parts)
        THEN <<Err("Unexpected number of dots"), frac[2], frac[3], frac[4]>>
        ELSE frac

Outcome(p)          == p[1]
ReachedInner(p)     == p[2]
Fractional(p)       == p[3]
FractionalFactor(p) == p[4]

(***************************************************************************)
(* from_str as a state machine: the input is drawn when the run starts,    *)
(* and the one action parses it.                                           *)
(***************************************************************************)
MaxDots == 2

Rep(c, n) == [i \in 1..n |-> c]

WholeSamples ==
    { <<>>, <<"0">>, <<"1">>, <<"x">>, <<"1", "2">>, <<"1", "x">>,
      BigInteger_to_string(MaxScaled),
      BigInteger_to_string(NatAdd(MaxScaled, <<1>>)),
      BigInteger_to_string(U256_MAX),
      BigInteger_to_string(NatAdd(U256_MAX, <<1>>)) }

FractionalSamples ==
    { <<>>, <<"5">>, <<"0", "5">>, <<"x">>,
      <<"2", "3", "4", "5", "6", "7", "8", "9", "0", "1", "2", "3", "4", "5", "6", "7", "8", "9">>,
      <<"2", "3", "4", "5", "6", "7", "8", "9", "0", "1", "2", "3", "4", "5", "6", "7", "8", "9", "1">>,
      Rep("9", 18), Rep("9", 19), Rep("0", 19), Rep("x", 19),
      Rep("9", 77), Rep("9", 78), Rep("0", 80) }

TailSamples == { <<>>, <<"3">>, <<"x">> }

\* the strings with at most d more dots after the fractional segment
RECURSIVE WithTails(_, _)
WithTails(S, d) ==
    IF d = 0 THEN S
    ELSE S \cup WithTails({s \o <<".">> \o t : s \in S, t \in TailSamples}, d - 1)

ParseInputs ==
    WholeSamples
    \cup WithTails({w \o <<".">> \o f : w \in WholeSamples, f \in FractionalSamples},
                   MaxDots - 1)

ParseInit ==
    /\ overflow_checks = TRUE
    /\ pow_checked = TRUE
    /\ call = NoCall
    /\ prev = NoCall
    /\ input \in ParseInputs
    /\ parsed = NoParse
    /\ map = <<>>
    /\ restored = <<>>
    /\ last = NoMapOp
    /\ shadow = <<>>

FromStr ==
    /\ parsed = NoParse
    /\ parsed' = BigDecimal_from_str(input)
    /\ UNCHANGED <<overflow_checks, pow_checked, call, prev, input, map, restored, last, shadow>>

ParseNext == FromStr

SpecParse == ParseInit /\ [][ParseNext]_vars

(***************************************************************************)
(* SerializableMap.  The BTreeMap is the sequence of its <<key, value>>    *)
(* entries in the order iteration yields them; None is 0.                  *)
(***************************************************************************)
MaxKey == 2
MaxSeqLen == 2

Keys == 1..MaxKey
Values == {1, 2}

HasKey(m, k) == \E i \in 1..Len(m) : m[i][1] = k

\* BTreeMap::insert: replaces the value of a key it holds, and puts a new
\* key between the smaller and the larger ones
BTreeMap_insert(m, k, v) ==
    SelectSeq(m, LAMBDA e : e[1] < k) \o <<<<k, v>>>> \o SelectSeq(m, LAMBDA e : e[1] > k)

\* BTreeMap::remove: <<the map without k, the value removed or 0>>
BTreeMap_remove(m, k) ==
    << SelectSeq(m, LAMBDA e : e[1] # k),
       IF HasKey(m, k) THEN m[CHOOSE i \in 1..Len(m) : m[i][1] = k][2] ELSE 0 >>

SerializableMap_new == <<>>

SerializableMap_set(m, k, v) == BTreeMap_insert(m, k, v)

\* delete answering whether the key was absent
SerializableMap_delete_inverted(m, k) ==
    <<BTreeMap_remove(m, k)[1], BTreeMap_remove(m, k)[2] = 0>>

\* <<the map after, the bool returned>>
SerializableMap_delete(m, k) ==
    <<BTreeMap_remove(m, k)[1], BTreeMap_remove(m, k)[2] # 0>>

SerializableMap_get(m, k) ==
    IF HasKey(m, k) THEN m[CHOOSE i \in 1..Len(m) : m[i][1] = k][2] ELSE 0

SerializableMap_iter(m) == m

SerializableMap_is_empty(m) == Len(m) = 0

\* set of every item in turn, from new()
RECURSIVE SetAll(_, _, _)
SetAll(m, items, i) ==
    IF i > Len(items) THEN m
    ELSE SetAll(SerializableMap_set(m, items[i][1], items[i][2]), items, i + 1)

\* serialize_seq(Some(len)) and one element per entry: <<len, the pairs>>
SerializableMap_serialize(m) == <<Len(m), SerializableMap_iter(m)>>

\* a visitor that keeps the first value it meets for a key
RECURSIVE KeepFirst(_, _, _)
KeepFirst(m, items, i) ==
    IF i > Len(items) THEN m
    ELSE KeepFirst(IF HasKey(m, items[i][1]) THEN m
                   ELSE SerializableMap_set(m, items[i][1], items[i][2]),
                   items, i + 1)

visit_seq_keep_first(seq) == KeepFirst(SerializableMap_new, seq, 1)

\* SerializableMapVisitor::visit_seq
visit_seq(seq) == SetAll(SerializableMap_new, seq, 1)

MapInit ==
    /\ overflow_checks = TRUE
    /\ pow_checked = TRUE
    /\ call = NoCall
    /\ prev = NoCall
    /\ input = <<>>
    /\ parsed = NoParse
    /\ map = SerializableMap_new
    /\ restored = SerializableMap_new
    /\ last = NoMapOp
    /\ shadow = [k \in Keys |-> 0]

MapFrame == UNCHANGED <<overflow_checks, pow_checked, call, prev, input, parsed>>

Set ==
    /\ \E k \in Keys, v \in Values :
        /\ map' = SerializableMap_set(map, k, v)
        /\ shadow' = [shadow EXCEPT ![k] = v]
        /\ last' = MapOp("set", k, v, FALSE, 0, map, <<>>, 0)
    /\ UNCHANGED restored /\ MapFrame

Delete ==
    /\ \E k \in Keys :
        /\ map' = SerializableMap_delete(map, k)[1]
        /\ shadow' = [shadow EXCEPT ![k] = 0]
        /\ last' = MapOp("delete", k, 0, SerializableMap_delete(map, k)[2], 0, map, <<>>, 0)
    /\ UNCHANGED restored /\ MapFrame

Get ==
    /\ \E k \in Keys :
        last' = MapOp("get", k, 0, FALSE, SerializableMap_get(map, k), map, <<>>, 0)
    /\ UNCHANGED <<map, restored, shadow>> /\ MapFrame

IsEmpty ==
    /\ last' = MapOp("is_empty", 0, 0, SerializableMap_is_empty(map), 0, map, <<>>, 0)
    /\ UNCHANGED <<map, restored, shadow>> /\ MapFrame

Serialize ==
    /\ last' = MapOp("serialize", 0, 0, FALSE, 0, map,
                     SerializableMap_serialize(map)[2], SerializableMap_serialize(map)[1])
    /\ UNCHANGED <<map, restored, shadow>> /\ MapFrame

\* deserialize what serialize wrote last
DeserializeWritten ==
    /\ LastOp(last) = "serialize"
    /\ restored' = visit_seq(LastPairs(last))
    /\ last' = MapOp("deserialize_written", 0, 0, FALSE, 0, map, LastPairs(last), LastHint(last))
    /\ UNCHANGED <<map, shadow>> /\ MapFrame

\* deserialize any sequence of pairs
Deserialize ==
    /\ \E seq \in SeqsUpTo(Keys \X Values, MaxSeqLen) :
        /\ restored' = visit_seq(seq)
        /\ last' = MapOp("deserialize", 0, 0, FALSE, 0, map, seq, Len(seq))
    /\ UNCHANGED <<map, shadow>> /\ MapFrame

MapNext ==
    \/ Set \/ Delete \/ Get \/ IsEmpty
    \/ Serialize \/ DeserializeWritten \/ Deserialize

SpecMap == MapInit /\ [][MapNext]_vars

(***************************************************************************)
(* Claims about the numeric operations, under SpecNum.                     *)
(***************************************************************************)
RECURSIVE ExactSumFrom(_, _)
ExactSumFrom(xs, i) == IF i > Len(xs) THEN <<>> ELSE NatAdd(xs[i], ExactSumFrom(xs, i + 1))

\* the mathematical total of xs
ExactSum(xs) == ExactSumFrom(xs, 1)

PrefixOverflows(xs) ==
    \E k \in 1..Len(xs) : ~NatLe(ExactSum(SubSeq(xs, 1, k)), U256_MAX)

SumOps == {"BigInteger::sum", "BigInteger::sum_ref", "BigDecimal::sum", "BigDecimal::sum_ref"}

\* C1: sum, by value or by reference, of BigIntegers or of BigDecimals, is
\* the exact total when no running prefix total exceeds MAX (zero for the
\* empty sequence, 6 for [1, 2, 3]); when some prefix total exceeds MAX it
\* ends in an overflow panic and yields no value, wrapped or otherwise.
C1_SumExactOrOverflow ==
    OpOf(call) \in SumOps =>
        /\ IF PrefixOverflows(ArgXs(call))
           THEN IsPanic(ResOf(call)) /\ Msg(ResOf(call)) = "Overflow"
           ELSE ResOf(call) = Ok(ExactSum(ArgXs(call)))
        /\ ArgXs(call) = <<>> => ResOf(call) = Ok(BigInteger_zero)
        /\ ArgXs(call) = <<FromNat(1), FromNat(2), FromNat(3)>> => ResOf(call) = Ok(FromNat(6))

\* a sum whose second prefix total passes MAX has panicked
C1_Witness ==
    /\ OpOf(call) = "BigInteger::sum_ref"
    /\ ArgXs(call) = <<NatSub(U256_MAX, <<1>>), <<1>>, <<1>>>>
    /\ IsPanic(ResOf(call))

\* C2: saturating_sub never fails; for a >= b it equals the checked a - b,
\* and for a < b it is zero while the checked a - b panics with Underflow.
C2_SaturatingSubVersusSub ==
    OpOf(call) \in {"BigInteger::saturating_sub", "BigDecimal::saturating_sub"} =>
        LET a == ArgA(call)
            b == ArgB(call)
            checked == IF OpOf(call) = "BigInteger::saturating_sub"
                       THEN BigInteger_sub(a, b) ELSE BigDecimal_sub(a, b)
        IN  /\ IsOk(ResOf(call))
            /\ NatLe(b, a) => ResOf(call) = checked /\ ResOf(call) = Ok(NatSub(a, b))
            /\ NatLt(a, b) => /\ ResOf(call) = Ok(BigInteger_zero)
                              /\ IsPanic(checked)
                              /\ Msg(checked) = "Underflow"

\* 1.saturating_sub(MAX) returned zero
C2_Witness ==
    /\ OpOf(call) = "BigInteger::saturating_sub"
    /\ ArgA(call) = <<1>>
    /\ ArgB(call) = U256_MAX
    /\ ResOf(call) = Ok(BigInteger_zero)

IsFromZeroDecimals(c) == OpOf(c) = "BigDecimal::from" /\ ArgN(c) = 0

IsRoundTrip ==
    /\ OpOf(call) = "BigDecimal::scale_up" /\ ArgN(call) = 0
    /\ IsFromZeroDecimals(prev)

\* C3 as stated: for every a in 0..MAX, BigDecimal::from(a, 0) returns a
\* BigDecimal and scale_up(0) of it is a.
C3_AsStated ==
    /\ IsFromZeroDecimals(call) => IsOk(ResOf(call))
    /\ IsRoundTrip => ResOf(call) = Ok(ArgA(prev))

\* C3 amended: for every a with a * 10^18 <= MAX, BigDecimal::from(a, 0)
\* returns the BigDecimal with atomics a * 10^18 and scale_up(0) of it is a;
\* for a larger a, BigDecimal::from(a, 0) panics with an overflow.
C3_RoundTripWithinDecimalRange ==
    /\ IsFromZeroDecimals(call) =>
        IF NatLe(ArgA(call), MaxScaled)
        THEN ResOf(call) = Ok(NatMul(ArgA(call), DECIMAL_FRACTIONAL))
        ELSE IsPanic(ResOf(call)) /\ Msg(ResOf(call)) = "Overflow"
    /\ IsRoundTrip => ResOf(call) = Ok(ArgA(prev))

\* the largest integer a BigDecimal holds has made the round trip
C3_Witness ==
    /\ IsRoundTrip
    /\ ArgA(prev) = MaxScaled
    /\ ResOf(call) = Ok(MaxScaled)

MulFits(v, n) == NatLe(NatMul(v, NatPow10(n)), U256_MAX)

\* C6: for every BigDecimal v and every n with v * 10^n within range,
\* move_point_right(n) succeeds and move_point_left(n) of its result
\* succeeds and returns v.
C6_MovePointRoundTrip ==
    /\ (OpOf(call) = "BigDecimal::move_point_right" /\ MulFits(ArgA(call), ArgN(call)))
           => IsOk(ResOf(call))
    /\ (/\ OpOf(call) = "BigDecimal::move_point_left"
        /\ ArgN(prev) = ArgN(call)
        /\ MulFits(ArgA(prev), ArgN(prev)))
           => ResOf(call) = Ok(ArgA(prev))

\* what the code does keep of C6: the round trip for n where 10^n fits u128
C6_RoundTripWhenPowerFits ==
    /\ (/\ OpOf(call) = "BigDecimal::move_point_right"
        /\ NatLe(NatPow10(ArgN(call)), U128_MAX)
        /\ MulFits(ArgA(call), ArgN(call)))
           => ResOf(call) = Ok(NatMul(ArgA(call), NatPow10(ArgN(call))))
    /\ (/\ OpOf(call) = "BigDecimal::move_point_left"
        /\ ArgN(prev) = ArgN(call)
        /\ NatLe(NatPow10(ArgN(call)), U128_MAX))
           => ResOf(call) = Ok(ArgA(prev))

\* floor(v * 10^18 / 10^d)
Rescaled(v, d) == NatDiv(NatMul(v, DECIMAL_FRACTIONAL), NatPow10(d))

\* C7: for every v and d, BigDecimal::from(v, d) and v.scale_down(d) return
\* atomics floor(v * 10^18 / 10^d) when that is within range (one() for
\* v = 10^d), and panic with an overflow when it is not.
C7_FromRescales ==
    OpOf(call) \in {"BigDecimal::from", "BigInteger::scale_down"} =>
        /\ IF NatLe(Rescaled(ArgA(call), ArgN(call)), U256_MAX)
           THEN ResOf(call) = Ok(Rescaled(ArgA(call), ArgN(call)))
           ELSE IsPanic(ResOf(call)) /\ Msg(ResOf(call)) = "Overflow"
        /\ ArgA(call) = NatPow10(ArgN(call)) => ResOf(call) = Ok(BigDecimal_one)

\* what the code does keep of C7: the rescaling for d where 10^d fits Uint128
C7_FromRescalesWhenPowerFits ==
    (/\ OpOf(call) \in {"BigDecimal::from", "BigInteger::scale_down"}
     /\ NatLe(NatPow10(ArgN(call)), U128_MAX)) =>
        IF NatLe(Rescaled(ArgA(call), ArgN(call)), U256_MAX)
        THEN ResOf(call) = Ok(Rescaled(ArgA(call), ArgN(call)))
        ELSE IsPanic(ResOf(call)) /\ Msg(ResOf(call)) = "Overflow"

(***************************************************************************)
(* Claims about BigDecimal::from_str, under SpecParse.                     *)
(***************************************************************************)
Parsed == parsed # NoParse

Segments == split_dots(input)

TooManyFractionalDigits == Err("Cannot parse more than 18 fractional digits")
UnexpectedFormat == Err("Unexpected number of dots")

LongFractional == Len(Segments) > 1 /\ Len(Segments[2]) > DECIMAL_PLACES

\* the whole segment parses and, scaled by 10^18, is within range
WholeAccepted ==
    /\ IsOk(Uint256_from_str(Segments[1]))
    /\ NatLe(Val(Uint256_from_str(Segments[1])), MaxScaled)

\* C4 as stated: every input whose fractional segment is longer than 18
\* characters fails with TooManyFractionalDigits.
C4_AsStated ==
    (Parsed /\ LongFractional) => Outcome(parsed) = TooManyFractionalDigits

\* C4 amended: every input whose fractional segment is longer than 18
\* characters fails; it fails with TooManyFractionalDigits exactly when the
\* whole segment parses as a Uint256 that fits once scaled by 10^18 and the
\* fractional segment parses as a Uint256, and otherwise with the error of
\* the earlier step that refused it.
C4_TooManyFractionalDigits ==
    (Parsed /\ LongFractional) =>
        /\ IsErr(Outcome(parsed))
        /\ Outcome(parsed) = TooManyFractionalDigits
               <=> (WholeAccepted /\ IsOk(Uint256_from_str(Segments[2])))
        /\ ~IsOk(Uint256_from_str(Segments[1]))
               => Outcome(parsed) = Err("Error parsing whole")
        /\ (IsOk(Uint256_from_str(Segments[1])) /\ ~WholeAccepted)
               => Outcome(parsed) = Err("Value too big")
        /\ (WholeAccepted /\ ~IsOk(Uint256_from_str(Segments[2])))
               => Outcome(parsed) = Err("Error parsing fractional")

\* "1.2345678901234567891" was refused for its 19 fractional digits
C4_Witness ==
    /\ input = <<"1", ".", "2", "3", "4", "5", "6", "7", "8", "9", "0", "1",
                 "2", "3", "4", "5", "6", "7", "8", "9", "1">>
    /\ Outcome(parsed) = TooManyFractionalDigits

\* the first two segments alone would parse
FirstTwoAccepted ==
    /\ WholeAccepted
    /\ IsOk(Uint256_from_str(Segments[2]))
    /\ Len(Segments[2]) <= DECIMAL_PLACES
    /\ NatLe(NatAdd(NatMul(Val(Uint256_from_str(Segments[1])), DECIMAL_FRACTIONAL),
                    NatMul(Val(Uint256_from_str(Segments[2])),
                           NatPow10(DECIMAL_PLACES - Len(Segments[2])))),
             U256_MAX)

\* C5 as stated: every input with more than one '.' fails with
\* UnexpectedFormat.
C5_AsStated ==
    (Parsed /\ Len(Segments) > 2) => Outcome(parsed) = UnexpectedFormat

\* C5 amended: every input with more than one '.' fails; it fails with
\* UnexpectedFormat exactly when its first two segments alone would parse
\* (the whole segment parses and fits, the fractional segment parses, has at
\* most 18 characters, and the sum fits), and otherwise with the error of the
\* earlier step that refused it.
C5_UnexpectedFormat ==
    (Parsed /\ Len(Segments) > 2) =>
        /\ IsErr(Outcome(parsed))
        /\ Outcome(parsed) = UnexpectedFormat <=> FirstTwoAccepted
        /\ ~FirstTwoAccepted =>
               Outcome(parsed) = Outcome(BigDecimal_from_str(Segments[1] \o <<".">> \o Segments[2]))

\* "1.5.3" was refused for its dots
C5_Witness ==
    /\ input = <<"1", ".", "5", ".", "3">>
    /\ Outcome(parsed) = UnexpectedFormat

\* C10: the inner multiplication never overflows: from_str never panics,
\* and wherever the multiplication is reached fractional < 10^18,
\* fractional_factor <= 10^18 and their product is below 10^18.
C10_InnerMulCannotOverflow ==
    Parsed =>
        /\ ~IsPanic(Outcome(parsed))
        /\ ReachedInner(parsed) =>
            /\ NatLt(Fractional(parsed), DECIMAL_FRACTIONAL)
            /\ NatLe(FractionalFactor(parsed), DECIMAL_FRACTIONAL)
            /\ NatLt(NatMul(Fractional(parsed), FractionalFactor(parsed)), DECIMAL_FRACTIONAL)

\* the multiplication was reached with the largest 18-digit fractional
C10_Witness ==
    /\ ReachedInner(parsed)
    /\ Fractional(parsed) = NatSub(DECIMAL_FRACTIONAL, <<1>>)
    /\ FractionalFactor(parsed) = <<1>>
    /\ IsOk(Outcome(parsed))

(***************************************************************************)
(* Claims about SerializableMap, under SpecMap.                            *)
(***************************************************************************)
StrictlyAscending(m) == \A i \in 1..(Len(m) - 1) : m[i][1] < m[i + 1][1]

Contents(m) == {m[i] : i \in 1..Len(m)}

\* C8: after any sequence of set and delete from new(), iter() yields the
\* entries in strictly ascending key order, each key once; get(k) is the
\* value of the latest set(k, _) not followed by delete(k), else None;
\* delete(k) returns true exactly when k was present and leaves every other
\* key as it was; is_empty() is true exactly when no key is present.
C8_MapOperations ==
    /\ StrictlyAscending(SerializableMap_iter(map))
    /\ \A k \in Keys : SerializableMap_get(map, k) = shadow[k]
    /\ SerializableMap_is_empty(map) <=> (\A k \in Keys : shadow[k] = 0)
    /\ LastOp(last) = "get" => LastGot(last) = shadow[LastKey(last)]
    /\ LastOp(last) = "is_empty" => (LastFlag(last) <=> \A k \in Keys : shadow[k] = 0)
    /\ LastOp(last) = "delete" =>
        /\ LastFlag(last) <=> HasKey(LastBefore(last), LastKey(last))
        /\ ~HasKey(map, LastKey(last))
        /\ \A j \in Keys \ {LastKey(last)} :
               SerializableMap_get(map, j) = SerializableMap_get(LastBefore(last), j)
    /\ LastOp(last) = "set" =>
        \A j \in Keys \ {LastKey(last)} :
               SerializableMap_get(map, j) = SerializableMap_get(LastBefore(last), j)

\* delete removed one of two keys and answered true
C8_Witness ==
    /\ LastOp(last) = "delete"
    /\ LastFlag(last)
    /\ Len(LastBefore(last)) = 2
    /\ Len(map) = 1

\* the value of the last pair of seq with key k, or 0
LastOccurrence(seq, k) ==
    IF \E i \in 1..Len(seq) : seq[i][1] = k
    THEN seq[CHOOSE i \in 1..Len(seq) :
                 seq[i][1] = k /\ \A j \in (i + 1)..Len(seq) : seq[j][1] # k][2]
    ELSE 0

\* C9: serialize(m) is m's pairs in ascending key order, announced with the
\* number of keys; maps with equal contents serialize alike however they
\* were built; deserializing what serialize wrote gives the map back; and
\* deserializing any sequence of pairs keeps, for a repeated key, the value
\* of its last occurrence.
C9_SerializationLossless ==
    /\ LastOp(last) = "serialize" =>
        /\ LastHint(last) = Cardinality({k \in Keys : shadow[k] # 0})
        /\ Len(LastPairs(last)) = LastHint(last)
        /\ StrictlyAscending(LastPairs(last))
        /\ Contents(LastPairs(last)) = {<<k, shadow[k]>> : k \in {j \in Keys : shadow[j] # 0}}
    /\ Contents(map) = Contents(restored) =>
           SerializableMap_serialize(map) = SerializableMap_serialize(restored)
    /\ LastOp(last) = "deserialize_written" => restored = map
    /\ LastOp(last) = "deserialize" =>
        \A k \in Keys : SerializableMap_get(restored, k) = LastOccurrence(LastPairs(last), k)

\* a sequence that repeats a key was deserialized, and the later value won
C9_Witness ==
    /\ LastOp(last) = "deserialize"
    /\ LastPairs(last) = <<<<1, 1>>, <<1, 2>>>>
    /\ restored = <<<<1, 2>>>>

====
